---- MODULE Spec2Model ----
(***************************************************************************)
(* MediAid (medaid_app.py): the triage pipeline (dataset lookup, remote    *)
(* reasoning call, static keyword rules) and the JSON history file that    *)
(* the two POST routes append to.                                          *)
(*                                                                         *)
(* A text is a sequence of one-character strings, so that lower(), strip(),*)
(* title(), the "in" substring test, startswith(), splitlines() and        *)
(* split(":", 1) are computed character by character as Python does.       *)
(***************************************************************************)
EXTENDS Integers, Sequences, FiniteSets, TLC

(***************************************************************************)
(* Bounds of the model.                                                    *)
(***************************************************************************)
\* rows of the dataset file symptoms_diseases.csv
MaxRows == 2
\* request threads of the server (one thread per request)
NumRequests == 2

(***************************************************************************)
(* Python str operations.                                                  *)
(***************************************************************************)
LowerAlpha == <<"a","b","c","d","e","f","g","h","i","j","k","l","m","n","o","p","q","r","s","t","u","v","w","x","y","z">>
UpperAlpha == <<"A","B","C","D","E","F","G","H","I","J","K","L","M","N","O","P","Q","R","S","T","U","V","W","X","Y","Z">>

\* A lone surrogate code point (what json.loads makes of "\ud800"): a
\* character of a str that the utf-8 codec refuses to encode.
Surrogate == "U+D800"

Whitespace == {" ", "\t", "\n", "\r"}

IsUpper(c) == \E i \in 1..Len(UpperAlpha) : UpperAlpha[i] = c
IsLower(c) == \E i \in 1..Len(LowerAlpha) : LowerAlpha[i] = c
IsCased(c) == IsUpper(c) \/ IsLower(c)

lower_char(c) ==
  IF IsUpper(c) THEN LowerAlpha[CHOOSE i \in 1..Len(UpperAlpha) : UpperAlpha[i] = c] ELSE c

upper_char(c) ==
  IF IsLower(c) THEN UpperAlpha[CHOOSE i \in 1..Len(LowerAlpha) : LowerAlpha[i] = c] ELSE c

\* str.lower()
lower(s) == [i \in 1..Len(s) |-> lower_char(s[i])]

\* str.strip(): drop leading and trailing whitespace
RECURSIVE lstrip(_)
lstrip(s) == IF s # <<>> /\ s[1] \in Whitespace THEN lstrip(Tail(s)) ELSE s

RECURSIVE rstrip(_)
rstrip(s) ==
  IF s # <<>> /\ s[Len(s)] \in Whitespace THEN rstrip(SubSeq(s, 1, Len(s) - 1)) ELSE s

strip(s) == rstrip(lstrip(s))

\* str.title(): a cased character is upper-cased when it follows an uncased
\* one (or starts the string) and lower-cased otherwise
title(s) ==
  [i \in 1..Len(s) |->
     IF i = 1 \/ ~IsCased(s[i - 1]) THEN upper_char(s[i]) ELSE lower_char(s[i])]

\* sub in s
Contains(sub, s) ==
  \E i \in 0..(Len(s) - Len(sub)) : SubSeq(s, i + 1, i + Len(sub)) = sub

\* s.startswith(prefix)
startswith(s, prefix) ==
  Len(s) >= Len(prefix) /\ SubSeq(s, 1, Len(prefix)) = prefix

\* index of the first occurrence of character c in s, 0 when there is none
find(s, c) ==
  IF \E i \in 1..Len(s) : s[i] = c
  THEN CHOOSE i \in 1..Len(s) : s[i] = c /\ \A j \in 1..(i - 1) : s[j] # c
  ELSE 0

\* str.splitlines(): "" gives no line, a final line break adds no empty line
\* (the line break of the replies is "\n")
RECURSIVE splitlines(_)
splitlines(s) ==
  IF s = <<>> THEN <<>>
  ELSE IF find(s, "\n") = 0 THEN <<s>>
  ELSE <<SubSeq(s, 1, find(s, "\n") - 1)>> \o splitlines(SubSeq(s, find(s, "\n") + 1, Len(s)))

\* line.split(":", 1)[-1]: the text after the first colon (the line itself
\* when it holds no colon)
split_colon_last(line) ==
  IF find(line, ":") = 0 THEN line ELSE SubSeq(line, find(line, ":") + 1, Len(line))

\* Python's None and a present value
None == <<>>
Some(x) == <<x>>

(***************************************************************************)
(* Module-level tables.                                                    *)
(***************************************************************************)
Mild == <<"M","i","l","d">>
Moderate == <<"M","o","d","e","r","a","t","e">>
Severe == <<"S","e","v","e","r","e">>

CONDITIONS == <<
  [keywords |-> << <<"c","h","e","s","t"," ","p","a","i","n">>, <<"s","h","o","r","t","n","e","s","s"," ","o","f"," ","b","r","e","a","t","h">>, <<"s","e","v","e","r","e"," ","b","l","e","e","d","i","n","g">>,
                   <<"u","n","c","o","n","s","c","i","o","u","s">>, <<"s","t","r","o","k","e">>, <<"h","e","a","r","t"," ","a","t","t","a","c","k">> >>,
   severity |-> Severe,
   advice |-> <<"G","o"," ","t","o"," ","t","h","e"," ","E","R"," ","i","m","m","e","d","i","a","t","e","l","y","."," ","C","a","l","l"," ","e","m","e","r","g","e","n","c","y"," ","s","e","r","v","i","c","e","s"," ","(","9","1","1"," ","o","r"," ","y","o","u","r"," ","l","o","c","a","l"," ","n","u","m","b","e","r",")",".">>],
  [keywords |-> << <<"h","i","g","h"," ","f","e","v","e","r">>, <<"v","o","m","i","t","i","n","g">>, <<"d","e","h","y","d","r","a","t","i","o","n">>, <<"s","e","v","e","r","e"," ","h","e","a","d","a","c","h","e">>,
                   <<"c","o","n","f","u","s","i","o","n">>, <<"s","t","i","f","f"," ","n","e","c","k">>, <<"d","i","f","f","i","c","u","l","t","y"," ","b","r","e","a","t","h","i","n","g">> >>,
   severity |-> Moderate,
   advice |-> <<"C","o","n","s","u","l","t"," ","a"," ","d","o","c","t","o","r"," ","w","i","t","h","i","n"," ","2","4"," ","h","o","u","r","s","."," ","I","f"," ","s","y","m","p","t","o","m","s"," ","w","o","r","s","e","n",","," ","s","e","e","k"," ","e","m","e","r","g","e","n","c","y"," ","c","a","r","e",".">>],
  [keywords |-> << <<"c","o","u","g","h">>, <<"r","u","n","n","y"," ","n","o","s","e">>, <<"m","i","l","d"," ","h","e","a","d","a","c","h","e">>, <<"m","i","l","d"," ","s","o","r","e"," ","t","h","r","o","a","t">>,
                   <<"b","a","c","k"," ","p","a","i","n">>, <<"f","a","t","i","g","u","e">> >>,
   severity |-> Mild,
   advice |-> <<"H","o","m","e"," ","c","a","r","e"," ","r","e","c","o","m","m","e","n","d","e","d","."," ","R","e","s","t",","," ","s","t","a","y"," ","h","y","d","r","a","t","e","d",","," ","a","n","d"," ","m","o","n","i","t","o","r"," ","s","y","m","p","t","o","m","s",".">>]
>>

\* the keys of SEVERITY_DISPLAY
SEVERITY_DISPLAY == {Mild, Moderate, Severe}

(***************************************************************************)
(* load_dataset: the cleaning of the three columns.  A csv file is None    *)
(* (no file) or Some(rows).                                                *)
(***************************************************************************)
load_dataset(csv) ==
  IF csv = None THEN None
  ELSE Some([i \in 1..Len(csv[1]) |->
               [symptom    |-> strip(lower(csv[1][i].symptom)),
                disease    |-> strip(csv[1][i].disease),
                risk_level |-> title(strip(csv[1][i].risk_level))]])

preprocess(text) == strip(lower(text))

(***************************************************************************)
(* dataset_match                                                           *)
(***************************************************************************)
\* risk_priority.get(level, 0)
risk_priority(level) ==
  IF level = Severe THEN 3
  ELSE IF level = Moderate THEN 2
  ELSE IF level = Mild THEN 1
  ELSE 0

\* max(matches, key=...): the first element whose key is the greatest
RECURSIVE max_by_risk(_, _, _)
max_by_risk(matches, i, best) ==
  IF i > Len(matches) THEN best
  ELSE max_by_risk(matches, i + 1,
         IF risk_priority(matches[i].risk_level) > risk_priority(best.risk_level)
         THEN matches[i] ELSE best)

MatchingRows(df, symptoms_text) ==
  SelectSeq(df[1], LAMBDA row : Contains(row.symptom, symptoms_text))

\* dataset_match with max() keeping the last of the rows of greatest priority
RECURSIVE max_by_risk_last(_, _, _)
max_by_risk_last(matches, i, best) ==
  IF i > Len(matches) THEN best
  ELSE max_by_risk_last(matches, i + 1,
         IF risk_priority(matches[i].risk_level) >= risk_priority(best.risk_level)
         THEN matches[i] ELSE best)

dataset_match_last(df, symptoms_text) ==
  IF df = None THEN None
  ELSE IF MatchingRows(df, symptoms_text) = <<>> THEN None
  ELSE LET matches == MatchingRows(df, symptoms_text)
           best == max_by_risk_last(matches, 2, matches[1])
       IN Some([disease  |-> best.disease,
                severity |-> best.risk_level,
                advice   |-> <<"P","o","s","s","i","b","l","e",":"," ">> \o best.disease
                             \o <<"."," ","P","l","e","a","s","e"," ","c","o","n","s","u","l","t"," ","a"," ","d","o","c","t","o","r"," ","f","o","r"," ","p","r","o","p","e","r"," ","d","i","a","g","n","o","s","i","s",".">>])

dataset_match(df, symptoms_text) ==
  IF df = None THEN None
  ELSE IF MatchingRows(df, symptoms_text) = <<>> THEN None
  ELSE LET matches == MatchingRows(df, symptoms_text)
           best == max_by_risk(matches, 2, matches[1])
       IN Some([disease  |-> best.disease,
                severity |-> best.risk_level,
                advice   |-> <<"P","o","s","s","i","b","l","e",":"," ">> \o best.disease
                             \o <<"."," ","P","l","e","a","s","e"," ","c","o","n","s","u","l","t"," ","a"," ","d","o","c","t","o","r"," ","f","o","r"," ","p","r","o","p","e","r"," ","d","i","a","g","n","o","s","i","s",".">>])

(***************************************************************************)
(* rule_based_triage                                                       *)
(***************************************************************************)
RECURSIVE any_keyword(_, _, _)
any_keyword(keywords, k, symptoms_text) ==
  IF k > Len(keywords) THEN FALSE
  ELSE IF Contains(keywords[k], symptoms_text) THEN TRUE
  ELSE any_keyword(keywords, k + 1, symptoms_text)

RECURSIVE rule_scan(_, _)
rule_scan(c, symptoms_text) ==
  IF c > Len(CONDITIONS)
  THEN [severity |-> Mild,
        advice |-> <<"H","o","m","e"," ","c","a","r","e"," ","r","e","c","o","m","m","e","n","d","e","d","."," ","R","e","s","t",","," ","s","t","a","y"," ","h","y","d","r","a","t","e","d",","," ","a","n","d"," ","m","o","n","i","t","o","r"," ","s","y","m","p","t","o","m","s",".">>]
  ELSE IF any_keyword(CONDITIONS[c].keywords, 1, symptoms_text)
  THEN [severity |-> CONDITIONS[c].severity, advice |-> CONDITIONS[c].advice]
  ELSE rule_scan(c + 1, symptoms_text)

\* rule_based_triage scanning the catalog from its last rule to its first
RECURSIVE rule_scan_reversed(_, _)
rule_scan_reversed(c, symptoms_text) ==
  IF c < 1
  THEN [severity |-> Mild,
        advice |-> <<"H","o","m","e"," ","c","a","r","e"," ","r","e","c","o","m","m","e","n","d","e","d","."," ","R","e","s","t",","," ","s","t","a","y"," ","h","y","d","r","a","t","e","d",","," ","a","n","d"," ","m","o","n","i","t","o","r"," ","s","y","m","p","t","o","m","s",".">>]
  ELSE IF any_keyword(CONDITIONS[c].keywords, 1, symptoms_text)
  THEN [severity |-> CONDITIONS[c].severity, advice |-> CONDITIONS[c].advice]
  ELSE rule_scan_reversed(c - 1, symptoms_text)

rule_based_triage_reversed(symptoms_text) == rule_scan_reversed(Len(CONDITIONS), symptoms_text)

rule_based_triage(symptoms_text) == rule_scan(1, symptoms_text)

(***************************************************************************)
(* llm_triage.  A reply of the reasoning service is a record               *)
(* [kind, content]: kind "response" carries the message content, the       *)
(* other kinds are the faults of the call (all raised inside the try).     *)
(***************************************************************************)
RECURSIVE parse_lines(_, _, _)
parse_lines(lines, i, acc) ==
  IF i > Len(lines) THEN acc
  ELSE LET line == lines[i]
           val == strip(split_colon_last(line))
       IN parse_lines(lines, i + 1,
            IF startswith(lower(line), <<"s","e","v","e","r","i","t","y",":">>)
            THEN (IF title(val) \in SEVERITY_DISPLAY
                  THEN [acc EXCEPT !.severity = title(val)] ELSE acc)
            ELSE IF startswith(lower(line), <<"a","d","v","i","c","e",":">>)
            THEN [acc EXCEPT !.advice = val]
            ELSE IF startswith(lower(line), <<"d","i","s","e","a","s","e",":">>)
            THEN [acc EXCEPT !.disease = val]
            ELSE acc)

\* the parsing without .title() on the severity value
RECURSIVE parse_lines_no_title(_, _, _)
parse_lines_no_title(lines, i, acc) ==
  IF i > Len(lines) THEN acc
  ELSE LET line == lines[i]
           val == strip(split_colon_last(line))
       IN parse_lines_no_title(lines, i + 1,
            IF startswith(lower(line), <<"s","e","v","e","r","i","t","y",":">>)
            THEN (IF val \in SEVERITY_DISPLAY THEN [acc EXCEPT !.severity = val] ELSE acc)
            ELSE IF startswith(lower(line), <<"a","d","v","i","c","e",":">>)
            THEN [acc EXCEPT !.advice = val]
            ELSE IF startswith(lower(line), <<"d","i","s","e","a","s","e",":">>)
            THEN [acc EXCEPT !.disease = val]
            ELSE acc)

parse_response_no_title(content) ==
  parse_lines_no_title(splitlines(strip(content)), 1,
                       [severity |-> Mild, advice |-> <<>>, disease |-> <<>>])

parse_response(content) ==
  parse_lines(splitlines(strip(content)), 1,
              [severity |-> Mild, advice |-> <<>>, disease |-> <<>>])

ReplyKinds == {"response", "transport_error", "timeout", "no_content"}

\* llm_triage with an except clause that lets the faults of the call through
llm_triage_uncaught(client, reply) ==
  IF ~client THEN [raised |-> FALSE, value |-> None]
  ELSE IF reply.kind = "response"
  THEN [raised |-> FALSE, value |-> Some(parse_response(reply.content))]
  ELSE [raised |-> TRUE, value |-> None]

\* The try block catches every Exception: a fault of the call, or of reading
\* the message content, makes llm_triage return None.  raised tells whether
\* an exception leaves llm_triage.
llm_triage(client, reply) ==
  IF ~client THEN [raised |-> FALSE, value |-> None]
  ELSE IF reply.kind = "response"
  THEN [raised |-> FALSE, value |-> Some(parse_response(reply.content))]
  ELSE [raised |-> FALSE, value |-> None]

(***************************************************************************)
(* triage_symptoms, cut at the remote call.  A dict of three keys and a    *)
(* tuple of three items are true in Python, so "if dataset_result" and     *)
(* "if llm_result" test for None.                                          *)
(***************************************************************************)
RuleVerdict(symptoms_text) ==
  Some([severity |-> rule_based_triage(symptoms_text).severity,
        advice   |-> rule_based_triage(symptoms_text).advice,
        disease  |-> <<>>])

\* triage_symptoms consulting the keyword rules before the dataset
triage_start_rules_first(df, client, raw) ==
  LET symptoms_text == preprocess(raw)
      dataset_result == dataset_match(df, symptoms_text)
  IN IF \E c \in 1..Len(CONDITIONS) : any_keyword(CONDITIONS[c].keywords, 1, symptoms_text)
     THEN [verdict |-> RuleVerdict(symptoms_text), calls |-> <<"dataset", "rule">>,
           call |-> FALSE]
     ELSE IF dataset_result # None
     THEN [verdict |-> dataset_result, calls |-> <<"dataset">>, call |-> FALSE]
     ELSE IF client
     THEN [verdict |-> None, calls |-> <<"dataset", "llm">>, call |-> TRUE]
     ELSE [verdict |-> RuleVerdict(symptoms_text), calls |-> <<"dataset", "rule">>,
           call |-> FALSE]

\* up to the remote call: the verdict when one is reached without the call,
\* the tiers attempted, and whether the remote call is made
triage_start(df, client, raw) ==
  LET symptoms_text == preprocess(raw)
      dataset_result == dataset_match(df, symptoms_text)
  IN IF dataset_result # None
     THEN [verdict |-> dataset_result, calls |-> <<"dataset">>, call |-> FALSE]
     ELSE IF client
     THEN [verdict |-> None, calls |-> <<"dataset", "llm">>, call |-> TRUE]
     ELSE [verdict |-> RuleVerdict(symptoms_text), calls |-> <<"dataset", "rule">>,
           call |-> FALSE]

\* from the return of the remote call on
triage_finish(client, reply, raw) ==
  LET symptoms_text == preprocess(raw)
      llm_result == llm_triage(client, reply)
  IN IF llm_result.raised
     THEN [raised |-> TRUE, verdict |-> None, calls |-> <<"dataset", "llm">>]
     ELSE IF llm_result.value # None
     THEN [raised |-> FALSE, verdict |-> llm_result.value, calls |-> <<"dataset", "llm">>]
     ELSE [raised |-> FALSE, verdict |-> RuleVerdict(symptoms_text),
           calls |-> <<"dataset", "llm", "rule">>]

(***************************************************************************)
(* The history file mediaid_history.json.  Its content is a sequence of    *)
(* JSON tokens; json.dump writes them and json.load parses them.           *)
(***************************************************************************)
Tok(k) == [tok |-> k, val |-> <<>>]
LB == Tok("[")
RB == Tok("]")
Comma == Tok(",")
\* the beginning of an object whose string could not be encoded
Partial == Tok("{")
Obj(e) == [tok |-> "obj", val |-> <<e>>]

\* whether the utf-8 codec of the file accepts every string of the entry
Encodable(e) ==
  \A f \in {"symptoms", "severity", "advice", "disease"} :
    \A i \in 1..Len(e[f]) : e[f][i] # Surrogate

\* json.dump(history, f, ensure_ascii=False, indent=2): the chunks reach the
\* file in order; a string with a lone surrogate raises UnicodeEncodeError
\* at its chunk, after the chunks before it were written.
RECURSIVE dump_items(_, _)
dump_items(h, i) ==
  LET sep == IF i > 1 THEN <<Comma>> ELSE <<>>
  IN IF i > Len(h) THEN [data |-> <<RB>>, ok |-> TRUE]
     ELSE IF ~Encodable(h[i]) THEN [data |-> sep \o <<Partial>>, ok |-> FALSE]
     ELSE [data |-> sep \o <<Obj(h[i])>> \o dump_items(h, i + 1).data,
           ok   |-> dump_items(h, i + 1).ok]

json_dump(h) == [data |-> <<LB>> \o dump_items(h, 1).data, ok |-> dump_items(h, 1).ok]

\* json.load(f): the list of the objects, or a JSONDecodeError (ok = FALSE)
\* when the content is not one well-formed list
json_load(content) ==
  LET n == Len(content)
      wellformed ==
        /\ n >= 2
        /\ content[1] = LB
        /\ content[n] = RB
        /\ \/ n = 2
           \/ /\ n % 2 = 1
              /\ \A i \in 2..(n - 1) :
                   IF i % 2 = 0 THEN content[i].tok = "obj" ELSE content[i] = Comma
  IN IF wellformed
     THEN [ok |-> TRUE,
           value |-> [k \in 1..((n - 1) \div 2) |-> content[2 * k].val[1]]]
     ELSE [ok |-> FALSE, value |-> <<>>]

\* a write of data at offset 0 of a file opened with "w" by this thread: it
\* replaces the bytes it covers and keeps what another writer put beyond
write_at_start(content, data) ==
  data \o SubSeq(content, Len(data) + 1, Len(content))

\* load_history()
load_history(f) ==
  IF ~f.exists THEN [ok |-> TRUE, value |-> <<>>] ELSE json_load(f.content)

(***************************************************************************)
(* State.                                                                  *)
(***************************************************************************)
Threads == 1..NumRequests
Routes == {"home", "api"}

VARIABLES
  dataset_file,   \* the file symptoms_diseases.csv of the environment
  api_key,        \* whether OPENAI_API_KEY is set
  started,        \* the module body has run
  symptoms_df,    \* module global: the dataset index
  openai_client,  \* module global: TRUE when the client exists
  file,           \* the history file: [exists, content]
  pc,             \* position of each request thread
  route,          \* the route of each request
  symptoms,       \* the raw text of each request
  verdict,        \* result of triage_symptoms: None or Some([severity, advice, disease])
  history,        \* save_history's local list
  response,       \* what the request answered: None or Some(entry)
  reply,          \* what the remote call returned: None or Some(reply)
  calls,          \* the tiers each request attempted, in order
  saved,          \* the entries passed to save_history, in call order
  log0            \* the log stored before the server started

vars == <<dataset_file, api_key, started, symptoms_df, openai_client, file, pc, route,
          symptoms, verdict, history, response, reply, calls, saved, log0>>

Entry(p) ==
  [symptoms |-> symptoms[p],
   severity |-> verdict[p][1].severity,
   advice   |-> verdict[p][1].advice,
   disease  |-> verdict[p][1].disease]

(***************************************************************************)
(* Inputs.                                                                 *)
(***************************************************************************)
RowPool == {
  [symptom |-> <<" ","F","e","v","e","r">>,     disease |-> <<"F","l","u"," ">>,    risk_level |-> <<"m","o","d","e","r","a","t","e">>],
  [symptom |-> <<"f","e","v","e","r">>,      disease |-> <<"D","e","n","g","u","e">>,  risk_level |-> <<"S","E","V","E","R","E">>],
  [symptom |-> <<"f","e","v","e","r">>,      disease |-> <<"M","a","l","a","r","i","a">>, risk_level |-> <<" ","s","e","v","e","r","e">>],
  [symptom |-> <<"c","o","u","g","h">>,      disease |-> <<"C","o","l","d">>,    risk_level |-> <<"m","i","l","d">>],
  [symptom |-> <<"c","h","e","s","t"," ","p","a","i","n">>, disease |-> <<"A","n","g","i","n","a">>,  risk_level |-> <<"S","e","v","e","r","e">>],
  [symptom |-> <<"f","e","v","e","r">>,      disease |-> <<"P","l","a","g","u","e">>,  risk_level |-> <<"c","r","i","t","i","c","a","l">>],
  [symptom |-> <<" "," ">>,         disease |-> <<"U","n","k","n","o","w","n">>, risk_level |-> <<"M","i","l","d">>]
}

RECURSIVE SeqsUpTo(_, _)
SeqsUpTo(S, n) ==
  IF n = 0 THEN {<<>>}
  ELSE SeqsUpTo(S, n - 1) \cup {Append(q, x) : q \in {r \in SeqsUpTo(S, n - 1) : Len(r) = n - 1}, x \in S}

CsvFiles == {None} \cup {Some(rows) : rows \in SeqsUpTo(RowPool, MaxRows)}

Texts == {
  <<>>,
  <<" "," "," ">>,
  <<"I"," ","h","a","v","e"," ","c","h","e","s","t"," ","p","a","i","n">>,
  <<"j","u","s","t"," ","a"," ","m","i","l","d"," ","h","e","a","d","a","c","h","e">>,
  <<"F","E","V","E","R">>,
  <<" "," ","f","e","v","e","r"," "," ">>,
  <<"H","i","g","h"," ","f","e","v","e","r"," ","a","n","d"," ","c","h","e","s","t"," ","p","a","i","n">>,
  <<"c","o","u","g","h","i","n","g",","," ","v","o","m","i","t","i","n","g">>,
  <<"F","e","v","e","r"," ","w","i","t","h"," ","a"," ","c","o","u","g","h">>,
  <<Surrogate>>
}

Replies ==
  {[kind |-> k, content |-> <<>>] : k \in ReplyKinds \ {"response"}} \cup
  {[kind |-> "response", content |-> c] : c \in {
     <<"S","e","v","e","r","i","t","y",":"," ","s","e","v","e","r","e","\n","A","d","v","i","c","e",":"," ","g","o"," ","n","o","w","\n","D","i","s","e","a","s","e",":"," ","f","l","u">>,
     <<>>,
     <<"A","d","v","i","c","e",":"," ","r","e","s","t">>,
     <<"S","e","v","e","r","i","t","y",":"," ","c","r","i","t","i","c","a","l","\n","A","d","v","i","c","e",":"," ","c","a","l","l"," ","a"," ","d","o","c","t","o","r">>,
     <<"S","E","V","E","R","I","T","Y",":"," "," ","M","O","D","E","R","A","T","E"," ","\n","a","d","v","i","c","e",":"," ","a",":"," ","b","\n">>,
     <<"D","i","s","e","a","s","e",":"," ","c","o","l","d","\n"," ","S","e","v","e","r","i","t","y",":"," ","S","e","v","e","r","e","\n","S","e","v","e","r","i","t","y",":"," ","u","n","s","u","r","e">>,
     <<"I","t"," ","s","o","u","n","d","s"," ","s","e","v","e","r","e",".">> }}

OldEntry ==
  [symptoms |-> <<"s","o","r","e"," ","t","h","r","o","a","t">>, severity |-> Mild, advice |-> <<"r","e","s","t">>, disease |-> <<>>]

Logs == {<<>>, <<OldEntry>>}

(***************************************************************************)
(* Actions.                                                                *)
(***************************************************************************)
InitOver(files, logs) ==
  /\ dataset_file \in files
  /\ api_key \in BOOLEAN
  /\ started = FALSE
  /\ symptoms_df = None
  /\ openai_client = FALSE
  /\ log0 \in logs
  /\ file = IF log0 = <<>> THEN [exists |-> FALSE, content |-> <<>>]
            ELSE [exists |-> TRUE, content |-> json_dump(log0).data]
  /\ pc = [p \in Threads |-> "idle"]
  /\ route = [p \in Threads |-> "api"]
  /\ symptoms = [p \in Threads |-> <<>>]
  /\ verdict = [p \in Threads |-> None]
  /\ history = [p \in Threads |-> <<>>]
  /\ response = [p \in Threads |-> None]
  /\ reply = [p \in Threads |-> None]
  /\ calls = [p \in Threads |-> <<>>]
  /\ saved = <<>>

\* the module body: lines 10-11 and 53
Startup ==
  /\ ~started
  /\ started' = TRUE
  /\ openai_client' = api_key
  /\ symptoms_df' = load_dataset(dataset_file)
  /\ UNCHANGED <<dataset_file, api_key, file, pc, route, symptoms, verdict, history,
                 response, reply, calls, saved, log0>>

\* a POST request reaches home() or triage_api()
Receive(p, r, s) ==
  /\ started
  /\ pc[p] = "idle"
  /\ route' = [route EXCEPT ![p] = r]
  /\ symptoms' = [symptoms EXCEPT ![p] = s]
  /\ pc' = [pc EXCEPT ![p] = IF r = "home" THEN "home_load" ELSE "triage"]
  /\ UNCHANGED <<dataset_file, api_key, started, symptoms_df, openai_client, file,
                 verdict, history, response, reply, calls, saved, log0>>

\* home(): history = load_history() before the form is read
HomeLoad(p) ==
  /\ pc[p] = "home_load"
  /\ pc' = [pc EXCEPT ![p] = IF load_history(file).ok THEN "triage" ELSE "error"]
  /\ UNCHANGED <<dataset_file, api_key, started, symptoms_df, openai_client, file, route,
                 symptoms, verdict, history, response, reply, calls, saved, log0>>

\* triage_symptoms up to the remote call, or to its return when no call is made
Triage(p) ==
  LET t == triage_start(symptoms_df, openai_client, symptoms[p])
  IN /\ pc[p] = "triage"
     /\ verdict' = [verdict EXCEPT ![p] = t.verdict]
     /\ calls' = [calls EXCEPT ![p] = t.calls]
     /\ pc' = [pc EXCEPT ![p] = IF t.call THEN "llm_call" ELSE "save_exists"]
     /\ UNCHANGED <<dataset_file, api_key, started, symptoms_df, openai_client, file,
                    route, symptoms, history, response, reply, saved, log0>>

\* the remote call of llm_triage ends with rep; the rest of triage_symptoms
LlmReturn(p, rep) ==
  LET t == triage_finish(openai_client, rep, symptoms[p])
  IN /\ pc[p] = "llm_call"
     /\ reply' = [reply EXCEPT ![p] = Some(rep)]
     /\ verdict' = [verdict EXCEPT ![p] = t.verdict]
     /\ calls' = [calls EXCEPT ![p] = t.calls]
     /\ pc' = [pc EXCEPT ![p] = IF t.raised THEN "error" ELSE "save_exists"]
     /\ UNCHANGED <<dataset_file, api_key, started, symptoms_df, openai_client, file,
                    route, symptoms, history, response, saved, log0>>

\* save_history(entry): os.path.exists, and history = [] ... append when absent
SaveExists(p) ==
  /\ pc[p] = "save_exists"
  /\ saved' = Append(saved, Entry(p))
  /\ IF ~file.exists
     THEN /\ history' = [history EXCEPT ![p] = <<Entry(p)>>]
          /\ pc' = [pc EXCEPT ![p] = "save_open"]
     ELSE /\ history' = history
          /\ pc' = [pc EXCEPT ![p] = "save_read"]
  /\ UNCHANGED <<dataset_file, api_key, started, symptoms_df, openai_client, file, route,
                 symptoms, verdict, response, reply, calls, log0>>

\* save_history: json.load of the file, then history.append(entry)
SaveRead(p) ==
  /\ pc[p] = "save_read"
  /\ IF json_load(file.content).ok
     THEN /\ history' = [history EXCEPT ![p] = Append(json_load(file.content).value, Entry(p))]
          /\ pc' = [pc EXCEPT ![p] = "save_open"]
     ELSE /\ history' = history
          /\ pc' = [pc EXCEPT ![p] = "error"]
  /\ UNCHANGED <<dataset_file, api_key, started, symptoms_df, openai_client, file, route,
                 symptoms, verdict, response, reply, calls, saved, log0>>

\* save_history: open(HISTORY_FILE, "w") creates or truncates the file
SaveOpen(p) ==
  /\ pc[p] = "save_open"
  /\ file' = [exists |-> TRUE, content |-> <<>>]
  /\ pc' = [pc EXCEPT ![p] = "save_dump"]
  /\ UNCHANGED <<dataset_file, api_key, started, symptoms_df, openai_client, route,
                 symptoms, verdict, history, response, reply, calls, saved, log0>>

\* save_history: json.dump and the close of the file
SaveDump(p) ==
  /\ pc[p] = "save_dump"
  /\ file' = [file EXCEPT !.content = write_at_start(@, json_dump(history[p]).data)]
  /\ pc' = [pc EXCEPT ![p] =
              IF ~json_dump(history[p]).ok THEN "error"
              ELSE IF route[p] = "home" THEN "home_reload" ELSE "respond"]
  /\ UNCHANGED <<dataset_file, api_key, started, symptoms_df, openai_client, route,
                 symptoms, verdict, history, response, reply, calls, saved, log0>>

\* home(): history = load_history() after save_history
HomeReload(p) ==
  /\ pc[p] = "home_reload"
  /\ pc' = [pc EXCEPT ![p] = IF load_history(file).ok THEN "respond" ELSE "error"]
  /\ UNCHANGED <<dataset_file, api_key, started, symptoms_df, openai_client, file, route,
                 symptoms, verdict, history, response, reply, calls, saved, log0>>

\* render_template_string(..., triage_result=entry, ...) / jsonify(entry)
Respond(p) ==
  /\ pc[p] = "respond"
  /\ response' = [response EXCEPT ![p] = Some(Entry(p))]
  /\ pc' = [pc EXCEPT ![p] = "done"]
  /\ UNCHANGED <<dataset_file, api_key, started, symptoms_df, openai_client, file, route,
                 symptoms, verdict, history, reply, calls, saved, log0>>

InFlight(p) == pc[p] \notin {"idle", "done", "error"}

\* a request that arrives while no other request is being served
ReceiveAlone(p, r, s) ==
  /\ \A q \in Threads : ~InFlight(q)
  /\ Receive(p, r, s)

(***************************************************************************)
(* Specifications.                                                         *)
(***************************************************************************)
SmallFiles ==
  {None,
   Some(<<[symptom |-> <<" ","F","e","v","e","r">>, disease |-> <<"F","l","u"," ">>, risk_level |-> <<"m","o","d","e","r","a","t","e">>]>>)}

SmallTexts == {<<"F","E","V","E","R">>, <<"I"," ","h","a","v","e"," ","c","h","e","s","t"," ","p","a","i","n">>, <<"F","e","v","e","r"," ","w","i","t","h"," ","a"," ","c","o","u","g","h">>}

\* the texts of the requests that arrive one after the other: a JSON body may
\* carry a lone surrogate
SeqTexts == SmallTexts \cup {<<Surrogate>>}

SmallReplies ==
  {[kind |-> "timeout", content |-> <<>>],
   [kind |-> "response", content |-> <<>>],
   [kind |-> "response", content |-> <<"S","e","v","e","r","i","t","y",":"," ","s","e","v","e","r","e","\n","A","d","v","i","c","e",":"," ","g","o"," ","n","o","w","\n","D","i","s","e","a","s","e",":"," ","f","l","u">>]}

\* The threaded server: the request threads interleave at their file and
\* network operations.
Init == InitOver(SmallFiles, Logs)

Next ==
  \/ Startup
  \/ \E p \in Threads, r \in Routes, s \in SmallTexts : Receive(p, r, s)
  \/ \E p \in Threads : HomeLoad(p)
  \/ \E p \in Threads : Triage(p)
  \/ \E p \in Threads, rep \in SmallReplies : LlmReturn(p, rep)
  \/ \E p \in Threads : SaveExists(p)
  \/ \E p \in Threads : SaveRead(p)
  \/ \E p \in Threads : SaveOpen(p)
  \/ \E p \in Threads : SaveDump(p)
  \/ \E p \in Threads : HomeReload(p)
  \/ \E p \in Threads : Respond(p)

Spec == Init /\ [][Next]_vars

\* The same server when the requests arrive one after the other.
NextSeq ==
  \/ Startup
  \/ \E p \in Threads, r \in Routes, s \in SeqTexts : ReceiveAlone(p, r, s)
  \/ \E p \in Threads : HomeLoad(p)
  \/ \E p \in Threads : Triage(p)
  \/ \E p \in Threads, rep \in SmallReplies : LlmReturn(p, rep)
  \/ \E p \in Threads : SaveExists(p)
  \/ \E p \in Threads : SaveRead(p)
  \/ \E p \in Threads : SaveOpen(p)
  \/ \E p \in Threads : SaveDump(p)
  \/ \E p \in Threads : HomeReload(p)
  \/ \E p \in Threads : Respond(p)

SpecSeq == Init /\ [][NextSeq]_vars

\* triage_symptoms alone, called through triage_api, over every dataset
\* file, text and reply of the input sets.
InitTriage == InitOver(CsvFiles, {<<>>})

NextTriage ==
  \/ Startup
  \/ \E s \in Texts : Receive(1, "api", s)
  \/ Triage(1)
  \/ \E rep \in Replies : LlmReturn(1, rep)

SpecTriage == InitTriage /\ [][NextTriage]_vars

(***************************************************************************)
(* Properties.                                                             *)
(***************************************************************************)
Tiers == {Mild, Moderate, Severe}

\* the normalized text of request p
TextOf(p) == preprocess(symptoms[p])

\* the rows of the dataset index
Rows == IF symptoms_df = None THEN <<>> ELSE symptoms_df[1]

\* the indices of the rows whose symptom phrase occurs in the text of p
Matching(p) == {i \in 1..Len(Rows) : Contains(Rows[i].symptom, TextOf(p))}

Last(q) == q[Len(q)]

Max(S) == CHOOSE m \in S : \A n \in S : n <= m
Min(S) == CHOOSE m \in S : \A n \in S : m <= n

Count(q, e) == Cardinality({i \in 1..Len(q) : q[i] = e})

AllDone == \A p \in Threads : pc[p] = "done"

\* C1: every verdict triage_symptoms returns has a severity among Mild,
\* Moderate, Severe and a non-empty advice, whatever the text, the dataset
\* index and the behaviour of the reasoning service.
C1_VerdictSeverityAndAdvice ==
  \A p \in Threads :
    verdict[p] # None =>
      /\ verdict[p][1].severity \in Tiers
      /\ verdict[p][1].advice # <<>>

\* C2: triage_symptoms is a strict waterfall.  The verdict is that of the
\* first tier that succeeds in the order dataset, reasoning, rules; the
\* reasoning service is called only when the dataset gave no match and the
\* client exists; the rules are used only when both earlier tiers failed.
\* When a dataset row matches, the verdict is the dataset's even if a rule
\* keyword matches too.
C2_StrictWaterfall ==
  \A p \in Threads :
    calls[p] # <<>> =>
      /\ calls[p] \in {<<"dataset">>, <<"dataset", "llm">>, <<"dataset", "rule">>,
                       <<"dataset", "llm", "rule">>}
      /\ Matching(p) # {} =>
           /\ calls[p] = <<"dataset">>
           /\ reply[p] = None
           /\ verdict[p] = dataset_match(symptoms_df, TextOf(p))
           /\ verdict[p] # None
      /\ (Matching(p) = {} /\ openai_client) =>
           /\ SubSeq(calls[p], 1, 2) = <<"dataset", "llm">>
           /\ reply[p] = None => (verdict[p] = None /\ calls[p] = <<"dataset", "llm">>)
           /\ (reply[p] # None /\ reply[p][1].kind = "response") =>
                /\ calls[p] = <<"dataset", "llm">>
                /\ verdict[p] = Some(parse_response(reply[p][1].content))
           /\ (reply[p] # None /\ reply[p][1].kind # "response") =>
                /\ calls[p] = <<"dataset", "llm", "rule">>
                /\ verdict[p] = RuleVerdict(TextOf(p))
      /\ (Matching(p) = {} /\ ~openai_client) =>
           /\ calls[p] = <<"dataset", "rule">>
           /\ reply[p] = None
           /\ verdict[p] = RuleVerdict(TextOf(p))

\* C2 witness: "I have chest pain" matches the dataset row of Angina and the
\* keyword "chest pain" of the Severe rule, and the verdict is the dataset's.
C2_Witness ==
  /\ symptoms[1] = <<"I"," ","h","a","v","e"," ","c","h","e","s","t"," ","p","a","i","n">>
  /\ calls[1] = <<"dataset">>
  /\ verdict[1] # None
  /\ verdict[1][1].disease = <<"A","n","g","i","n","a">>
  /\ rule_based_triage(TextOf(1)).advice # verdict[1][1].advice
  /\ any_keyword(CONDITIONS[1].keywords, 1, TextOf(1))

\* C3: when the dataset gave no match and the reasoning call fails, no
\* exception leaves llm_triage and triage_symptoms returns the verdict of the
\* keyword rules for the normalized text, with an empty disease.
C3_ReasoningFailureFallsBack ==
  \A p \in Threads :
    (reply[p] # None /\ reply[p][1].kind # "response") =>
      /\ Matching(p) = {}
      /\ pc[p] # "error"
      /\ verdict[p] = RuleVerdict(TextOf(p))
      /\ verdict[p][1].disease = <<>>

\* C3 witness: the call timed out for "I have chest pain" and the verdict is
\* the Severe rule's.
C3_Witness ==
  /\ reply[1] # None
  /\ reply[1][1].kind = "timeout"
  /\ symptoms[1] = <<"I"," ","h","a","v","e"," ","c","h","e","s","t"," ","p","a","i","n">>
  /\ verdict[1] # None
  /\ verdict[1][1].severity = Severe
  /\ verdict[1][1].disease = <<>>

\* C4: when save_history calls run concurrently, no entry is lost: once all
\* the requests have completed, the stored log holds every entry that was
\* passed to save_history.
C4_NoEntryLost ==
  AllDone =>
    /\ load_history(file).ok
    /\ \A i \in 1..Len(saved) :
         Count(load_history(file).value, saved[i]) >= Count(saved, saved[i])

\* C5: the log is append-only and ordered by arrival: after any sequence of
\* sequential save_history calls, load_history returns the entries stored
\* before followed by the appended entries in the order of the calls.
C5_AppendOnlyInOrder ==
  (\A p \in Threads : ~InFlight(p)) =>
    /\ load_history(file).ok
    /\ load_history(file).value = log0 \o saved

\* C6: every triage request, through either route, appends exactly one
\* entry, made of the raw text and of the verdict returned to the caller.
C6_OneEntryPerRequest ==
  AllDone =>
    /\ \A p \in Threads : response[p] = Some(Entry(p))
    /\ load_history(file).ok
    /\ \E f \in Permutations(Threads) :
         load_history(file).value = log0 \o [i \in Threads |-> Entry(f[i])]

\* C7: dataset_match gives no match when no row's phrase occurs in the text;
\* otherwise the verdict is made of the first row, in table order, among the
\* matching rows of greatest risk priority (Severe 3, Moderate 2, Mild 1, any
\* other level below them): its disease, its risk level as severity and the
\* advice "Possible: {disease}. Please consult a doctor for proper
\* diagnosis."  A Moderate and a Severe matching row give Severe in either
\* table order.
C7_Priority(level) ==
  CASE level = Severe -> 3
    [] level = Moderate -> 2
    [] level = Mild -> 1
    [] OTHER -> 0

C7_DatasetMatchHighestRiskFirst ==
  \A p \in Threads :
    calls[p] # <<>> =>
      IF Matching(p) = {}
      THEN calls[p] # <<"dataset">>
      ELSE /\ calls[p] = <<"dataset">>
           /\ \E i \in Matching(p) :
                /\ \A j \in Matching(p) :
                     C7_Priority(Rows[j].risk_level) <= C7_Priority(Rows[i].risk_level)
                /\ \A j \in Matching(p) :
                     j < i => C7_Priority(Rows[j].risk_level) < C7_Priority(Rows[i].risk_level)
                /\ verdict[p] =
                     Some([disease  |-> Rows[i].disease,
                           severity |-> Rows[i].risk_level,
                           advice   |-> <<"P","o","s","s","i","b","l","e",":"," ">> \o Rows[i].disease
                                        \o <<"."," ","P","l","e","a","s","e"," ","c","o","n","s","u","l","t"," ","a"," ","d","o","c","t","o","r"," ","f","o","r"," ","p","r","o","p","e","r"," ","d","i","a","g","n","o","s","i","s",".">>])
           /\ (\E j, k \in Matching(p) :
                 Rows[j].risk_level = Moderate /\ Rows[k].risk_level = Severe)
              => verdict[p][1].severity = Severe

\* C7 witness: two Severe rows match after dataset_match ran, and the
\* verdict names the disease of the first of them.
C7_Witness ==
  /\ calls[1] = <<"dataset">>
  /\ Len(Rows) = 2
  /\ Matching(1) = {1, 2}
  /\ Rows[1].risk_level = Severe
  /\ Rows[2].risk_level = Severe
  /\ Rows[1].disease # Rows[2].disease
  /\ verdict[1][1].disease = Rows[1].disease

\* C8: rule_based_triage is total and gives the severity and advice of the
\* first rule, in catalog order (Severe, Moderate, Mild), one of whose
\* keywords occurs in the text, and (Mild, home-care advice) when none does.
\* Without dataset and client, "I have chest pain" gives Severe and "just a
\* mild headache" gives Mild, with an empty disease.
C8_HitRules(text) ==
  {c \in 1..Len(CONDITIONS) :
     \E k \in 1..Len(CONDITIONS[c].keywords) : Contains(CONDITIONS[c].keywords[k], text)}

C8_RuleMatchFirstRule ==
  /\ [c \in 1..Len(CONDITIONS) |-> CONDITIONS[c].severity] = <<Severe, Moderate, Mild>>
  /\ \A p \in Threads :
       (calls[p] # <<>> /\ Last(calls[p]) = "rule") =>
         /\ verdict[p] # None
         /\ verdict[p][1].disease = <<>>
         /\ IF C8_HitRules(TextOf(p)) = {}
            THEN /\ verdict[p][1].severity = Mild
                 /\ verdict[p][1].advice =
                      <<"H","o","m","e"," ","c","a","r","e"," ","r","e","c","o","m","m","e","n","d","e","d","."," ","R","e","s","t",","," ","s","t","a","y"," ","h","y","d","r","a","t","e","d",","," ","a","n","d"," ","m","o","n","i","t","o","r"," ","s","y","m","p","t","o","m","s",".">>
            ELSE /\ verdict[p][1].severity = CONDITIONS[Min(C8_HitRules(TextOf(p)))].severity
                 /\ verdict[p][1].advice = CONDITIONS[Min(C8_HitRules(TextOf(p)))].advice
  /\ \A p \in Threads :
       (symptoms_df = None /\ ~openai_client /\ calls[p] # <<>>) =>
         /\ symptoms[p] = <<"I"," ","h","a","v","e"," ","c","h","e","s","t"," ","p","a","i","n">> =>
              (verdict[p][1].severity = Severe /\ verdict[p][1].disease = <<>>)
         /\ symptoms[p] = <<"j","u","s","t"," ","a"," ","m","i","l","d"," ","h","e","a","d","a","c","h","e">> =>
              (verdict[p][1].severity = Mild /\ verdict[p][1].disease = <<>>)

\* C8 witness: without dataset and client, a text holding a Moderate keyword
\* ("high fever") and a Severe one ("chest pain") got the Severe rule.
C8_Witness ==
  /\ symptoms_df = None
  /\ ~openai_client
  /\ symptoms[1] = <<"H","i","g","h"," ","f","e","v","e","r"," ","a","n","d"," ","c","h","e","s","t"," ","p","a","i","n">>
  /\ calls[1] = <<"dataset", "rule">>
  /\ C8_HitRules(TextOf(1)) = {1, 2}
  /\ verdict[1][1].severity = Severe

\* C9: a response of the reasoning service is parsed line by line, the
\* labels matched without regard to case: the severity is the title-cased
\* value of a Severity line when that is Mild, Moderate or Severe, and Mild
\* when no line gives such a value; advice and disease are the trimmed text
\* after the first colon of their line, and empty without such a line.
\* "Severity: severe / Advice: go now / Disease: flu" parses to
\* (Severe, "go now", "flu").
C9_Lines(p) == splitlines(strip(reply[p][1].content))

C9_Labelled(p, label) ==
  {i \in 1..Len(C9_Lines(p)) : startswith(lower(C9_Lines(p)[i]), label)}

C9_Value(p, i) == strip(split_colon_last(C9_Lines(p)[i]))

C9_Accepted(p) ==
  {i \in C9_Labelled(p, <<"s","e","v","e","r","i","t","y",":">>) : title(C9_Value(p, i)) \in Tiers}

C9_ParseResponse ==
  \A p \in Threads :
    (reply[p] # None /\ reply[p][1].kind = "response") =>
      /\ verdict[p] # None
      /\ verdict[p][1].severity \in Tiers
      /\ verdict[p][1].severity =
           IF C9_Accepted(p) = {} THEN Mild ELSE title(C9_Value(p, Max(C9_Accepted(p))))
      /\ verdict[p][1].advice =
           IF C9_Labelled(p, <<"a","d","v","i","c","e",":">>) = {} THEN <<>>
           ELSE C9_Value(p, Max(C9_Labelled(p, <<"a","d","v","i","c","e",":">>)))
      /\ verdict[p][1].disease =
           IF C9_Labelled(p, <<"d","i","s","e","a","s","e",":">>) = {} THEN <<>>
           ELSE C9_Value(p, Max(C9_Labelled(p, <<"d","i","s","e","a","s","e",":">>)))
      /\ reply[p][1].content = <<"S","e","v","e","r","i","t","y",":"," ","s","e","v","e","r","e","\n","A","d","v","i","c","e",":"," ","g","o"," ","n","o","w","\n","D","i","s","e","a","s","e",":"," ","f","l","u">> =>
           verdict[p] = Some([severity |-> Severe, advice |-> <<"g","o"," ","n","o","w">>,
                              disease |-> <<"f","l","u">>])

\* C9 witness: the three-line response was parsed to (Severe, "go now", "flu").
C9_Witness ==
  /\ reply[1] # None
  /\ reply[1][1].kind = "response"
  /\ reply[1][1].content = <<"S","e","v","e","r","i","t","y",":"," ","s","e","v","e","r","e","\n","A","d","v","i","c","e",":"," ","g","o"," ","n","o","w","\n","D","i","s","e","a","s","e",":"," ","f","l","u">>
  /\ verdict[1] = Some([severity |-> Severe, advice |-> <<"g","o"," ","n","o","w">>, disease |-> <<"f","l","u">>])

\* C10: every row of the dataset index has a risk level among Mild, Moderate,
\* Severe (a file with another level is rejected when loaded), so that a
\* verdict of dataset_match never has a severity outside the three tiers.
C10_RiskLevelsRecognized ==
  /\ \A i \in 1..Len(Rows) : Rows[i].risk_level \in Tiers
  /\ \A p \in Threads :
       (calls[p] = <<"dataset">> /\ verdict[p] # None) => verdict[p][1].severity \in Tiers
====
